---- MODULE Spec2Model ----
(***************************************************************************)
(* A model of the cdparanoia bindings: the error mapping of error.rs, the  *)
(* Drive handle of lib.rs, and the Paranoia handle and the DiscReader      *)
(* sector cursor of read.rs, over a native layer that records every call   *)
(* made to it.  The model follows the build with the libcdio-paranoia and  *)
(* tracing features: track numbers are u8, sector numbers are i32 on the   *)
(* native side and u32 on the Rust side, return codes are i32, and         *)
(* check_messages drains the native message buffers.                       *)
(***************************************************************************)
EXTENDS Integers, Sequences, FiniteSets, TLC

VARIABLES
    build,      \* how the crate was built: overflow checks, ownership
    nat,        \* the native layer: drive and reader pointers, calls of the last operation
    drive,      \* the Drive handles, by native drive pointer
    paranoia,   \* the Paranoia handles, by native reader pointer
    reader,     \* the DiscReader cursor borrowed from each Paranoia handle
    last        \* the last operation of the binding and what it returned

vars == <<build, nat, drive, paranoia, reader, last>>

(***************************************************************************)
(* Bounds of the model.                                                    *)
(***************************************************************************)
MaxDrives == 2
MaxReaders == 1
MaxLsn == 3
MaxCode == 12

(***************************************************************************)
(* Integer widths.  TLC's integers are 32 bits wide, so a u32 is held as   *)
(* the i32 of the same 32 bits: 0 .. 2^31-1 as themselves, and             *)
(* 2^31 .. 2^32-1 as I32Min .. -1.                                         *)
(***************************************************************************)
U8Max == 255
U16Mod == 65536
I32Max == 2147483647
I32Min == -I32Max - 1
U32Max == -1

\* a + 1 in u32, wrapping; it overflows exactly at U32Max.
u32_succ(a) == IF a = I32Max THEN I32Min ELSE a + 1

\* a <= b as u32 values.
u32_le(a, b) == IF (a >= 0) = (b >= 0) THEN a <= b ELSE a >= 0

\* i32::try_from(a) of a u32 fails when the top bit is set.
fits_i32(a) == a >= 0
DefaultRetries == 20
CDIO_INVALID_TRACK == 255

DriveIds == 1..MaxDrives
ReaderIds == 1..MaxReaders

(***************************************************************************)
(* error.rs: the error values.                                             *)
(***************************************************************************)
NoError == [kind |-> "", name |-> "", n |-> 0]
CantOpenDrive == [kind |-> "Error", name |-> "CantOpenDrive", n |-> 0]
ReadError == [kind |-> "Error", name |-> "Read", n |-> 0]
InvalidString == [kind |-> "Error", name |-> "InvalidString", n |-> 0]

\* The discriminants of enum ParanoiaError.
ParanoiaErrorName(n) ==
    CASE n = 1 -> "SetToReadAudioMode"
      [] n = 2 -> "ReadTocLeadOut"
      [] n = 3 -> "IllegalNumberOfTracks"
      [] n = 4 -> "ReadTocHeader"
      [] n = 5 -> "ReadTocEntry"
      [] n = 6 -> "ReadAnyData"
      [] n = 7 -> "Unknown"
      [] n = 8 -> "IdentifyModel"
      [] n = 9 -> "IllegalToc"
      [] n = 10 -> "UnaddressableSector"
      [] n = 100 -> "InterfaceNotSupported"
      [] n = 101 -> "InvalidDrive"
      [] n = 102 -> "PermissionDeniedIoctl"
      [] n = 103 -> "PermissionDeniedData"
      [] n = 300 -> "KernelMemoryError"
      [] n = 400 -> "DeviceNotOpen"
      [] n = 401 -> "InvalidTrackNumber"
      [] n = 402 -> "TrackNotAudioData"
      [] n = 403 -> "NoAudioTracks"
      [] n = 404 -> "NoMedium"
      [] n = 405 -> "NotSupported"
      [] OTHER -> "Other"

\* #[derive(FromPrimitive)] with #[num_enum(catch_all)] Other(u16).
from_primitive(n) == [kind |-> "Paranoia", name |-> ParanoiaErrorName(n), n |-> n]

\* The results of the binding's operations: Ok(val), Err(err), None, or a panic.
Ok(v) == [tag |-> "Ok", val |-> v, err |-> NoError]
Err(e) == [tag |-> "Err", val |-> 0, err |-> e]
None == [tag |-> "None", val |-> 0, err |-> NoError]
Panic == [tag |-> "Panic", val |-> 0, err |-> NoError]
Unit == [tag |-> "Unit", val |-> 0, err |-> NoError]

\* `code as u16` of AsPrimitive<u16>: the low 16 bits.
as_u16(n) == n % U16Mod

\* ParanoiaError::check_result for N = i32.  -code overflows for i32::MIN: a
\* panic with overflow checks (debug builds), a wrap to i32::MIN without.
check_result_le(code, oc) ==
    IF code <= 0
    THEN IF code = I32Min /\ oc THEN Panic
         ELSE Err(from_primitive(as_u16(IF code = I32Min THEN I32Min ELSE -code)))
    ELSE Ok(code)

check_result(code, oc) ==
    IF code < 0
    THEN IF code = I32Min /\ oc THEN Panic
         ELSE Err(from_primitive(as_u16(IF code = I32Min THEN I32Min ELSE -code)))
    ELSE Ok(code)

(***************************************************************************)
(* The native layer (the functions the sys crates declare), as a double    *)
(* that keeps each pointer's state, counts the release calls, logs the     *)
(* calls of the current operation and remembers (bad) whether any call was *)
(* ever made on a pointer that was not valid for it.                       *)
(***************************************************************************)
Call(N, f, p) == [N EXCEPT !.log = Append(@, <<f, p>>)]

DriveCall(N, f, d) ==
    [Call(N, f, d) EXCEPT !.bad = @ \/ N.drv[d].st \notin {"Located", "Open"}]

ReaderCall(N, f, r) ==
    [Call(N, f, r) EXCEPT !.bad = @ \/ IF N.rdr[r].st = "Live"
                                       THEN N.drv[N.rdr[r].drive].st # "Open"
                                       ELSE TRUE]

\* cdda_find_a_cdrom / cdda_identify returning the non-null pointer d.
cdda_locate(N, f, d) == [Call(N, f, d) EXCEPT !.drv[d].st = "Located"]

cdda_open(N, d, code) ==
    LET M == DriveCall(N, "cdda_open", d)
    IN  IF code >= 0 THEN [M EXCEPT !.drv[d].st = "Open"] ELSE M

cdda_close(N, d) ==
    [DriveCall(N, "cdda_close", d) EXCEPT !.drv[d].st = "Closed", !.drv[d].closes = @ + 1]

\* paranoia_init returning the non-null pointer r.  The read position of a
\* new native reader (cursor) is the first sector of the disc, sector 0 here.
paranoia_init(N, r, d) ==
    [DriveCall(N, "paranoia_init", d) EXCEPT
        !.rdr[r] = [st |-> "Live", drive |-> d, frees |-> 0, cursor |-> 0]]

paranoia_free(N, r) ==
    [ReaderCall(N, "paranoia_free", r) EXCEPT !.rdr[r].st = "Freed", !.rdr[r].frees = @ + 1]

\* paranoia_read_limited takes no sector: it returns the samples of the
\* sector at the reader's read position and moves the position one sector
\* on, or returns null and leaves the position where it was.
paranoia_read_limited(N, r, null) ==
    LET M == ReaderCall(N, "paranoia_read_limited", r)
    IN  IF null THEN M ELSE [M EXCEPT !.rdr[r].cursor = @ + 1]

\* The native layer at the start of an operation.
Begin == [nat EXCEPT !.log = <<>>]

\* The pointers not handed out yet; the next one is the lowest (0: none left).
FreeDrives == {d \in DriveIds : nat.drv[d].st = "Free"}
FreeReaders == {r \in ReaderIds : nat.rdr[r].st = "Free"}
Lowest(S) == IF S = {} THEN 0 ELSE CHOOSE x \in S : \A y \in S : x <= y
NewDrive == Lowest(FreeDrives)
NewReader == Lowest(FreeReaders)

(***************************************************************************)
(* lib.rs: the Drive handle.                                               *)
(***************************************************************************)
\* Drive::check_messages with the tracing feature: the pending errors and
\* messages of the drive are fetched (and logged, and freed).
check_messages(N, d) == DriveCall(DriveCall(N, "cdda_errors", d), "cdda_messages", d)

\* impl Drop for Drive.
drop_Drive(N, d) == cdda_close(check_messages(N, d), d)

\* What an operation leaves in `last`: its name, the pointer it was about,
\* its argument (for a cursor step: the position before the step), the value
\* the native call returned (for a cursor step: 1 when the native read
\* returned null) and its result.
Op(op, ptr, arg, ret, res) ==
    [op |-> op, ptr |-> ptr, arg |-> arg, ret |-> ret, res |-> res]

\* The common body of Drive::find and Drive::open once the path is a CString.
Locate(op, f, null, code) ==
    IF null
    THEN /\ nat' = Call(Begin, f, 0)
         /\ last' = Op(op, 0, 0, 0, Err(CantOpenDrive))
         /\ UNCHANGED drive
    ELSE LET d == NewDrive
             N1 == check_messages(cdda_locate(Begin, f, d), d)
             N2 == cdda_open(N1, d, code)
             res == check_result(code, build.overflow_checks)
         IN  IF res.tag = "Ok"
             THEN /\ nat' = check_messages(N2, d)
                  /\ drive' = [drive EXCEPT ![d] = "Caller"]
                  /\ last' = Op(op, d, 0, code, Ok(d))
             ELSE \* `?` returns early (or the panic unwinds): `drive` is dropped.
                  /\ nat' = drop_Drive(N2, d)
                  /\ drive' = [drive EXCEPT ![d] = "Dropped"]
                  /\ last' = Op(op, d, 0, code, res)

Find(null, code) ==
    /\ FreeDrives # {}
    /\ Locate("find", "cdda_find_a_cdrom", null, code)
    /\ UNCHANGED <<build, paranoia, reader>>

\* Drive::open with the path made a CString only after cdda_identify.
Open_identify_first(nul, null, code) ==
    /\ FreeDrives # {}
    /\ IF nul
       THEN /\ nat' = Call(Begin, "cdda_identify", 0)
            /\ last' = Op("open", 0, 1, 0, Err(InvalidString))
            /\ UNCHANGED drive
       ELSE Locate("open", "cdda_identify", null, code)
    /\ UNCHANGED <<build, paranoia, reader>>

\* Drive::open.  nul: the path holds a null byte, so CString::new fails and
\* `?` returns Error::InvalidString (arg 1 in `last`) before any native call.
Open(nul, null, code) ==
    /\ FreeDrives # {}
    /\ IF nul
       THEN /\ nat' = Begin
            /\ last' = Op("open", 0, 1, 0, Err(InvalidString))
            /\ UNCHANGED drive
       ELSE Locate("open", "cdda_identify", null, code)
    /\ UNCHANGED <<build, paranoia, reader>>

\* A Drive handle the caller holds goes out of scope.  While a Paranoia
\* borrows the drive, the borrow keeps the handle alive.
DropDrive(d) ==
    /\ drive[d] = "Caller"
    /\ \A r \in ReaderIds : paranoia[r].st = "Live" => paranoia[r].drive # d
    /\ nat' = drop_Drive(Begin, d)
    /\ drive' = [drive EXCEPT ![d] = "Dropped"]
    /\ last' = Op("drop_drive", d, 0, 0, Unit)
    /\ UNCHANGED <<build, paranoia, reader>>

(***************************************************************************)
(* read.rs: the Paranoia handle.                                           *)
(***************************************************************************)
\* Drive::paranoia and Paranoia::new.  lib.rs passes the drive by value and
\* read.rs keeps a reference to it: build.ownership says which of the two
\* the build follows ("owned": the Paranoia holds the Drive; "borrowed":
\* the caller keeps it).  A null paranoia_init fails the assertion.
DriveParanoia(d, null) ==
    /\ drive[d] = "Caller"
    /\ FreeReaders # {}
    /\ IF null
       THEN LET N1 == DriveCall(Begin, "paranoia_init", d)
            IN  /\ last' = Op("paranoia", d, 0, 0, Panic)
                /\ IF build.ownership = "owned"
                   THEN /\ nat' = drop_Drive(N1, d)
                        /\ drive' = [drive EXCEPT ![d] = "Dropped"]
                   ELSE /\ nat' = N1
                        /\ UNCHANGED drive
                /\ UNCHANGED paranoia
       ELSE LET r == NewReader
            IN  /\ nat' = paranoia_init(Begin, r, d)
                /\ paranoia' = [paranoia EXCEPT ![r] = [st |-> "Live", drive |-> d]]
                /\ drive' = [drive EXCEPT ![d] =
                                IF build.ownership = "owned" THEN "Reader" ELSE @]
                /\ last' = Op("paranoia", r, 0, 0, Ok(r))
    /\ UNCHANGED <<build, reader>>

\* impl Drop for Paranoia, and one that closes the drive of the reader too.
drop_Paranoia_closing(N, r) == cdda_close(paranoia_free(N, r), N.rdr[r].drive)

drop_Paranoia(N, r) == paranoia_free(N, r)

\* The drop with the fields dropped before Drop::drop runs.
drop_in_place_Paranoia_fields_first(N, r, d) ==
    IF build.ownership = "owned"
    THEN drop_Paranoia(drop_Drive(N, d), r)
    ELSE drop_Paranoia(N, r)

\* The drop of a Paranoia value: Drop::drop first, then its fields, which
\* hold the Drive in the owned build.
drop_in_place_Paranoia(N, r, d) ==
    IF build.ownership = "owned"
    THEN drop_Drive(drop_Paranoia(N, r), d)
    ELSE drop_Paranoia(N, r)

\* A Paranoia handle goes out of scope.  No DiscReader borrows it then.
DropParanoia(r) ==
    /\ paranoia[r].st = "Live"
    /\ ~reader[r].live
    /\ nat' = drop_in_place_Paranoia(Begin, r, paranoia[r].drive)
    /\ drive' = [drive EXCEPT ![paranoia[r].drive] =
                    IF build.ownership = "owned" THEN "Dropped" ELSE @]
    /\ paranoia' = [paranoia EXCEPT ![r].st = "Dropped"]
    /\ last' = Op("drop_paranoia", r, 0, 0, Unit)
    /\ UNCHANGED <<build, reader>>

(***************************************************************************)
(* lib.rs: the accessors of an open drive, each with the value `ret` the   *)
(* native call returns.                                                    *)
(***************************************************************************)
\* check_result(..)? as u32, then check_messages: track_first_sector,
\* track_last_sector, disc_first_sector, disc_last_sector.
sector_query(N, f, d, ret) ==
    LET N1 == DriveCall(N, f, d)
        res == check_result(ret, build.overflow_checks)
    IN  IF res.tag = "Ok"
        THEN [nat |-> check_messages(N1, d), res |-> Ok(ret)]
        ELSE [nat |-> N1, res |-> res]

track_first_sector(N, d, ret) == sector_query(N, "cdda_track_firstsector", d, ret)
track_last_sector(N, d, ret) == sector_query(N, "cdda_track_lastsector", d, ret)
disc_first_sector(N, d, ret) == sector_query(N, "cdda_disc_firstsector", d, ret)
disc_last_sector(N, d, ret) == sector_query(N, "cdda_disc_lastsector", d, ret)

\* Drive::tracks: the native u8, as it is.
tracks(N, d, ret) ==
    [nat |-> check_messages(DriveCall(N, "cdda_tracks", d), d), res |-> Ok(ret)]

\* Drive::sector_track: lsn.try_into().unwrap() to the native i32,
\* check_result, the invalid-track test, track.try_into().unwrap() to u8.
sector_track(N, d, lsn, ret) ==
    IF ~fits_i32(lsn)
    THEN [nat |-> N, res |-> Panic]
    ELSE LET N1 == DriveCall(N, "cdda_sector_gettrack", d)
             res == check_result(ret, build.overflow_checks)
         IN  IF res.tag # "Ok" THEN [nat |-> N1, res |-> res]
             ELSE IF ret = CDIO_INVALID_TRACK
                  THEN [nat |-> check_messages(N1, d), res |-> Err(from_primitive(401))]
                  ELSE IF ret > U8Max
                       THEN [nat |-> check_messages(N1, d), res |-> Panic]
                       ELSE [nat |-> check_messages(N1, d), res |-> Ok(ret)]

\* Drive::track_channels: u8::try_from(ret).ok().
track_channels(N, d, ret) ==
    [nat |-> check_messages(DriveCall(N, "cdda_track_channels", d), d),
     res |-> IF 0 <= ret /\ ret <= U8Max THEN Ok(ret) ELSE None]

\* track_audio, track_copy_permitted, track_linear_preemphasis: ret == 1.
flag_query(N, f, d, ret) ==
    [nat |-> check_messages(DriveCall(N, f, d), d),
     res |-> Ok(IF ret = 1 THEN 1 ELSE 0)]

track_audio(N, d, ret) == flag_query(N, "cdda_track_audiop", d, ret)
track_copy_permitted(N, d, ret) == flag_query(N, "cdda_track_copyp", d, ret)
track_linear_preemphasis(N, d, ret) == flag_query(N, "cdda_track_preemp", d, ret)

\* The caller queries a Drive it holds; arg is the track or sector asked for.
Query(op, d, arg, ret, out) ==
    /\ drive[d] = "Caller"
    /\ nat' = out.nat
    /\ last' = Op(op, d, arg, ret, out.res)
    /\ UNCHANGED <<build, drive, paranoia, reader>>

TrackFirstSector(d, track, ret) ==
    Query("track_first_sector", d, track, ret, track_first_sector(Begin, d, ret))
TrackLastSector(d, track, ret) ==
    Query("track_last_sector", d, track, ret, track_last_sector(Begin, d, ret))
DiscFirstSector(d, ret) ==
    Query("disc_first_sector", d, 0, ret, disc_first_sector(Begin, d, ret))
DiscLastSector(d, ret) ==
    Query("disc_last_sector", d, 0, ret, disc_last_sector(Begin, d, ret))
Tracks(d, ret) ==
    Query("tracks", d, 0, ret, tracks(Begin, d, ret))
SectorTrack(d, lsn, ret) ==
    Query("sector_track", d, lsn, ret, sector_track(Begin, d, lsn, ret))
TrackChannels(d, track, ret) ==
    Query("track_channels", d, track, ret, track_channels(Begin, d, ret))
TrackAudio(d, track, ret) ==
    Query("track_audio", d, track, ret, track_audio(Begin, d, ret))
TrackCopyPermitted(d, track, ret) ==
    Query("track_copy_permitted", d, track, ret, track_copy_permitted(Begin, d, ret))
TrackLinearPreemphasis(d, track, ret) ==
    Query("track_linear_preemphasis", d, track, ret,
          track_linear_preemphasis(Begin, d, ret))

(***************************************************************************)
(* read.rs: the DiscReader cursor.  first_lsn, yielded, failed and         *)
(* by_track are history: the first sector asked for, the successful steps  *)
(* so far, whether a native read failed, and whether read_track made it.   *)
(***************************************************************************)
NoReader ==
    [live |-> FALSE, last_lsn |-> 0, current_lsn |-> 0, max_retries |-> 0,
     first_lsn |-> 0, yielded |-> 0, failed |-> FALSE, by_track |-> FALSE]

DiscReader_new(first_lsn, last_lsn, max_retries) ==
    [live |-> TRUE, last_lsn |-> last_lsn, current_lsn |-> first_lsn,
     max_retries |-> max_retries,
     first_lsn |-> first_lsn, yielded |-> 0, failed |-> FALSE, by_track |-> FALSE]

\* Paranoia::read_sectors_limited: `&mut self` is borrowed until the
\* DiscReader is dropped.
ReadSectorsLimited(r, first_lsn, last_lsn, max_retries) ==
    /\ paranoia[r].st = "Live"
    /\ ~reader[r].live
    /\ reader' = [reader EXCEPT ![r] = DiscReader_new(first_lsn, last_lsn, max_retries)]
    /\ nat' = Begin
    /\ last' = Op("read_sectors", r, first_lsn, 0, Ok(r))
    /\ UNCHANGED <<build, drive, paranoia>>

ReadSectors(r, first_lsn, last_lsn) ==
    ReadSectorsLimited(r, first_lsn, last_lsn, DefaultRetries)

\* Paranoia::read_track_limited; nf and nl are what the native first-sector
\* and last-sector queries return.
ReadTrackLimited(r, track, max_retries, nf, nl) ==
    /\ paranoia[r].st = "Live"
    /\ ~reader[r].live
    /\ LET d == paranoia[r].drive
           o1 == track_first_sector(Begin, d, nf)
           o2 == track_last_sector(o1.nat, d, nl)
       IN  IF o1.res.tag # "Ok"
           THEN /\ nat' = o1.nat
                /\ last' = Op("read_track", r, track, nf, o1.res)
                /\ UNCHANGED reader
           ELSE IF o2.res.tag # "Ok"
                THEN /\ nat' = o2.nat
                     /\ last' = Op("read_track", r, track, nl, o2.res)
                     /\ UNCHANGED reader
                ELSE /\ nat' = o2.nat
                     /\ last' = Op("read_track", r, track, nl, Ok(r))
                     /\ reader' = [reader EXCEPT ![r] =
                            [DiscReader_new(o1.res.val, o2.res.val, max_retries)
                                EXCEPT !.by_track = TRUE]]
    /\ UNCHANGED <<build, drive, paranoia>>

ReadTrack(r, track, nf, nl) == ReadTrackLimited(r, track, DefaultRetries, nf, nl)

\* next_sector with the end test one sector late.
next_sector_inclusive(N, c, r, null) ==
    IF c.current_lsn = u32_succ(c.last_lsn)
    THEN [nat |-> N, cur |-> c, res |-> None]
    ELSE LET N1 == paranoia_read_limited(N, r, null)
         IN  IF null
             THEN [nat |-> N1, cur |-> [c EXCEPT !.failed = TRUE], res |-> Err(ReadError)]
             ELSE [nat |-> N1,
                   cur |-> [c EXCEPT !.current_lsn = u32_succ(@), !.yielded = @ + 1],
                   res |-> Ok(N.rdr[r].cursor)]

\* next_sector advancing the cursor before the native read.
next_sector_advance_first(N, c, r, null) ==
    IF c.current_lsn = c.last_lsn
    THEN [nat |-> N, cur |-> c, res |-> None]
    ELSE LET N1 == paranoia_read_limited(N, r, null)
         IN  IF null
             THEN [nat |-> N1,
                   cur |-> [c EXCEPT !.current_lsn = u32_succ(@), !.failed = TRUE],
                   res |-> Err(ReadError)]
             ELSE [nat |-> N1,
                   cur |-> [c EXCEPT !.current_lsn = u32_succ(@), !.yielded = @ + 1],
                   res |-> Ok(N.rdr[r].cursor)]

\* DiscReader::next_sector; null: paranoia_read_limited returns null.  The
\* value of a successful step is the sector whose samples the buffer holds.
\* current_lsn += 1 overflows at u32::MAX: a panic with overflow checks, a
\* wrap to 0 without.
next_sector(N, c, r, null) ==
    IF c.current_lsn = c.last_lsn
    THEN [nat |-> N, cur |-> c, res |-> None]
    ELSE LET N1 == paranoia_read_limited(N, r, null)
         IN  IF null
             THEN [nat |-> N1, cur |-> [c EXCEPT !.failed = TRUE], res |-> Err(ReadError)]
             ELSE IF c.current_lsn = U32Max /\ build.overflow_checks
                  THEN [nat |-> N1, cur |-> c, res |-> Panic]
                  ELSE [nat |-> N1,
                        cur |-> [c EXCEPT !.current_lsn = u32_succ(@),
                                          !.yielded = @ + 1],
                        res |-> Ok(N.rdr[r].cursor)]

\* The sectors the model follows a cursor through.
Counted(c) ==
    \/ c.current_lsn = c.last_lsn
    \/ 0 <= c.current_lsn /\ c.current_lsn < MaxLsn
    \/ c.current_lsn \in {U32Max - 1, U32Max}

Step(op, r, null) ==
    /\ reader[r].live
    /\ null \/ Counted(reader[r])
    /\ LET o == next_sector(Begin, reader[r], r, null)
       IN  /\ nat' = o.nat
           /\ reader' = [reader EXCEPT ![r] = o.cur]
           /\ last' = Op(op, r, reader[r].current_lsn,
                         IF null /\ o.nat.log # <<>> THEN 1 ELSE 0, o.res)
    /\ UNCHANGED <<build, drive, paranoia>>

NextSector(r, null) == Step("next_sector", r, null)

\* Iterator::next: next_sector, with the buffer cloned.
IterNext(r, null) == Step("next", r, null)

\* The DiscReader goes out of scope: the borrow of the Paranoia ends.
DropReader(r) ==
    /\ reader[r].live
    /\ reader' = [reader EXCEPT ![r] = NoReader]
    /\ nat' = Begin
    /\ last' = Op("drop_reader", r, 0, 0, Unit)
    /\ UNCHANGED <<build, drive, paranoia>>

\* ParanoiaError::check_result on its own.
CheckResult(code) ==
    /\ last' = Op("check_result", 0, 0, code, check_result(code, build.overflow_checks))
    /\ nat' = Begin
    /\ UNCHANGED <<build, drive, paranoia, reader>>

(***************************************************************************)
(* The initial state and the inputs.                                       *)
(***************************************************************************)
Builds == [overflow_checks : BOOLEAN, ownership : {"owned", "borrowed"}]

Init ==
    /\ build \in Builds
    /\ nat = [drv |-> [d \in DriveIds |-> [st |-> "Free", closes |-> 0]],
              rdr |-> [r \in ReaderIds |->
                        [st |-> "Free", drive |-> 0, frees |-> 0, cursor |-> 0]],
              log |-> <<>>,
              bad |-> FALSE]
    /\ drive = [d \in DriveIds |-> "None"]
    /\ paranoia = [r \in ReaderIds |-> [st |-> "None", drive |-> 0]]
    /\ reader = [r \in ReaderIds |-> NoReader]
    /\ last = Op("init", 0, 0, 0, Unit)

\* Negative native return codes: i32::MIN, one beyond u16, two documented
\* codes and an undocumented one.
ErrorCodes == {I32Min, -(U16Mod + 1), -404, -401, -11}
OpenCodes == ErrorCodes \cup {0}
SectorCodes == ErrorCodes \cup (0..MaxLsn)
FlagCodes == ErrorCodes \cup {0, 1, 2}
TrackCodes == ErrorCodes \cup {0, 1, U8Max - 1, U8Max, U8Max + 1}
ByteValues == {0, 1, U8Max}
TrackNumbers == {1, 2}
Sectors == (0..MaxLsn) \cup {U32Max - 1, U32Max}
SectorArgs == {0, MaxLsn, I32Max, I32Min, U32Max}
Retries == {0, DefaultRetries}
AllCodes ==
    (-MaxCode..MaxCode) \cup ErrorCodes
    \cup {-c : c \in {100, 101, 102, 103, 300, 400, 401, 402, 403, 404, 405}}
    \cup {-(U16Mod - 1), -U16Mod, -(U16Mod + 404), I32Min + 1, 404, U16Mod, I32Max}

\* Drives are found, opened and dropped.
Drives(D, codes) ==
    \/ \E null \in BOOLEAN, code \in codes : NewDrive \in D /\ Find(null, code)
    \/ \E nul \in BOOLEAN, null \in BOOLEAN, code \in codes :
            NewDrive \in D /\ Open(nul, null, code)
    \/ \E d \in D : DropDrive(d)

\* Readers are made from open drives and dropped.
Readers(D, R) ==
    \/ \E d \in D, null \in BOOLEAN : NewReader \in R /\ DriveParanoia(d, null)
    \/ \E r \in R : DropParanoia(r)

\* The caller queries the drives it holds.
Queries(D) ==
    \/ \E d \in D, t \in TrackNumbers, ret \in SectorCodes : TrackFirstSector(d, t, ret)
    \/ \E d \in D, t \in TrackNumbers, ret \in SectorCodes : TrackLastSector(d, t, ret)
    \/ \E d \in D, ret \in SectorCodes : DiscFirstSector(d, ret)
    \/ \E d \in D, ret \in SectorCodes : DiscLastSector(d, ret)
    \/ \E d \in D, ret \in ByteValues : Tracks(d, ret)
    \/ \E d \in D, lsn \in SectorArgs, ret \in TrackCodes : SectorTrack(d, lsn, ret)
    \/ \E d \in D, t \in TrackNumbers, ret \in FlagCodes : TrackChannels(d, t, ret)
    \/ \E d \in D, t \in TrackNumbers, ret \in FlagCodes : TrackAudio(d, t, ret)
    \/ \E d \in D, t \in TrackNumbers, ret \in FlagCodes : TrackCopyPermitted(d, t, ret)
    \/ \E d \in D, t \in TrackNumbers, ret \in FlagCodes : TrackLinearPreemphasis(d, t, ret)

\* The native read position of r is followed through the first K sectors of
\* the disc: no native read succeeds from sector K on.
InDisc(r, K, null) ==
    null \/ reader[r].current_lsn = reader[r].last_lsn \/ nat.rdr[r].cursor < K

\* Cursors are made from the sectors A to the sectors B (or between the track
\* bounds CA and CB the native layer reports), stepped and dropped.
Reading(R, A, B, CA, CB, M, K) ==
    \/ \E r \in R, a \in A, b \in B : ReadSectors(r, a, b)
    \/ \E r \in R, a \in A, b \in B, m \in M : ReadSectorsLimited(r, a, b, m)
    \/ \E r \in R, t \in TrackNumbers, nf \in CA, nl \in CB : ReadTrack(r, t, nf, nl)
    \/ \E r \in R, t \in TrackNumbers, m \in M, nf \in CA, nl \in CB :
            ReadTrackLimited(r, t, m, nf, nl)
    \/ \E r \in R, null \in BOOLEAN : InDisc(r, K, null) /\ NextSector(r, null)
    \/ \E r \in R, null \in BOOLEAN : InDisc(r, K, null) /\ IterNext(r, null)
    \/ \E r \in R : DropReader(r)

\* Every handle of every drive, with cursors over the one sector of the disc.
Next ==
    \/ Drives(DriveIds, {I32Min, -404, 0})
    \/ Readers(DriveIds, ReaderIds)
    \/ Reading(ReaderIds, {0}, {1}, {-401, 0}, {-401, 1}, {DefaultRetries}, 1)

Spec == Init /\ [][Next]_vars

\* One drive and one reader, with cursors over all the sectors.
NextRead ==
    \/ Drives({1}, {-404, 0})
    \/ Readers({1}, {1})
    \/ Reading({1}, Sectors, Sectors, SectorCodes, SectorCodes, Retries, MaxLsn)

SpecRead == Init /\ [][NextRead]_vars

\* One drive, its accessors and its reader.
NextQuery ==
    \/ Drives({1}, OpenCodes)
    \/ Readers({1}, {1})
    \/ Queries({1})

SpecQuery == Init /\ [][NextQuery]_vars

\* The error mapping alone, over the return codes.
NextErr == \E code \in AllCodes : CheckResult(code)

SpecErr == Init /\ [][NextErr]_vars

(***************************************************************************)
(* The sector cursor.                                                      *)
(***************************************************************************)
StepOps == {"next_sector", "next"}

\* The last operation was a step of the cursor of reader r.
Stepped(r) == last.op \in StepOps /\ last.ptr = r

\* The cursor of r is over [A, B) with A <= B and no native read of it failed.
CleanRange(r) ==
    /\ reader[r].live
    /\ ~reader[r].failed
    /\ u32_le(reader[r].first_lsn, reader[r].last_lsn)

\* C1: a cursor over [A, B) with A <= B whose native reads all return a buffer
\* yields exactly B - A successful steps: every step before that is Ok, never
\* more than B - A are, and the step that returns None comes after exactly
\* B - A of them and makes no native call.
C1_ExactlyRangeSteps ==
    \A r \in ReaderIds :
        CleanRange(r) =>
            /\ u32_le(reader[r].yielded, reader[r].last_lsn - reader[r].first_lsn)
            /\ Stepped(r) => last.res.tag \in {"Ok", "None"}
            /\ Stepped(r) /\ last.res.tag = "None" =>
                    /\ reader[r].yielded = reader[r].last_lsn - reader[r].first_lsn
                    /\ nat.log = <<>>
            /\ Stepped(r) /\ last.res.tag = "Ok" =>
                    nat.log = <<<<"paranoia_read_limited", r>>>>

\* A cursor over three sectors is exhausted after three successful steps.
C1_Witness ==
    \E r \in ReaderIds :
        /\ CleanRange(r) /\ ~reader[r].by_track
        /\ Stepped(r) /\ last.res.tag = "None"
        /\ reader[r].yielded = 3

\* C2 as claimed: a cursor made by read_track for a track whose first sector
\* is F and whose last sector is L - 1 (the native first-sector and last-sector
\* answers) is exhausted after L - F successful steps, one per sector.
C2_TrackStepsAsClaimed ==
    \A r \in ReaderIds :
        CleanRange(r) /\ reader[r].by_track /\ Stepped(r) /\ last.res.tag = "None" =>
            reader[r].yielded = (reader[r].last_lsn + 1) - reader[r].first_lsn

\* C3 as claimed: a step whose native read returns null yields Error::Read
\* and leaves the cursor one sector further than before the step.
C3_AdvancesOnFailureAsClaimed ==
    \A r \in ReaderIds :
        Stepped(r) /\ last.ret = 1 =>
            /\ last.res = Err(ReadError)
            /\ reader[r].current_lsn = u32_succ(last.arg)

\* C3 amended: a step whose native read returns null yields Error::Read and
\* leaves the cursor where it was; the cursor advances by one sector exactly
\* in the steps whose native read succeeds.
C3_StaysOnFailure ==
    \A r \in ReaderIds :
        /\ Stepped(r) /\ last.ret = 1 =>
                /\ last.res = Err(ReadError)
                /\ reader[r].current_lsn = last.arg
                /\ nat.log = <<<<"paranoia_read_limited", r>>>>
        /\ Stepped(r) /\ last.res.tag = "Ok" =>
                reader[r].current_lsn = u32_succ(last.arg)
        /\ Stepped(r) /\ last.res.tag \in {"None", "Panic"} =>
                reader[r].current_lsn = last.arg

\* A native read failed at sector 1, after one successful step.
C3_Witness ==
    \E r \in ReaderIds :
        /\ Stepped(r) /\ last.ret = 1 /\ last.res = Err(ReadError)
        /\ reader[r].yielded = 1 /\ last.arg = 1 /\ reader[r].current_lsn = 1

\* C12 as claimed: in a cursor over [A, B) with A <= B, A and B sector numbers
\* the native layer has (i32), the k-th successful step returns the samples of
\* sector A + k, wherever the native reader's read position was when the
\* cursor was made.  (yielded counts the successful steps, this one included.)
C12_StepReturnsItsSectorAsClaimed ==
    \A r \in ReaderIds :
        /\ reader[r].live
        /\ u32_le(reader[r].first_lsn, reader[r].last_lsn)
        /\ fits_i32(reader[r].first_lsn) /\ fits_i32(reader[r].last_lsn)
        /\ Stepped(r) /\ last.res.tag = "Ok"
        => last.res.val = reader[r].first_lsn + (reader[r].yielded - 1)

(***************************************************************************)
(* The error mapping.                                                      *)
(***************************************************************************)
Checked == last.op = "check_result"

\* C4 as claimed: every negative return code c maps to the error of the
\* documented table for its magnitude -c, or to Other carrying -c itself.
\* (The magnitude of i32::MIN is 2^31: one more than I32Max.)
C4_NegativeMapsToMagnitudeAsClaimed ==
    Checked /\ last.ret < 0 =>
        /\ last.res.tag = "Err"
        /\ last.ret # I32Min => last.res.err = from_primitive(-last.ret)
        /\ last.ret = I32Min =>
                last.res.err.name = "Other" /\ last.res.err.n - 1 = I32Max

\* C5: every non-negative return code is returned as it is, as a success.
C5_NonNegativeIsOk ==
    Checked /\ last.ret >= 0 => last.res = Ok(last.ret)

\* check_result was given 0 and returned Ok(0).
C5_Witness ==
    Checked /\ last.ret = 0 /\ last.res.tag = "Ok" /\ last.res.val = 0

(***************************************************************************)
(* The accessors and the fatal conditions.                                 *)
(***************************************************************************)
QueryOps ==
    {"track_first_sector", "track_last_sector", "disc_first_sector",
     "disc_last_sector", "tracks", "sector_track", "track_channels",
     "track_audio", "track_copy_permitted", "track_linear_preemphasis"}

\* The last operation was an accessor whose native call was made.
Queried == last.op \in QueryOps /\ nat.log # <<>>

\* C6 as claimed: an accessor whose native call returns a negative code
\* returns the typed error the error mapping gives for that code.
C6_AccessorsPropagateAsClaimed ==
    Queried /\ last.ret < 0 =>
        /\ last.res.tag = "Err"
        /\ last.res.err.kind = "Paranoia"

\* C10 as claimed: only the creation of a reader panics.
C10_OnlyReaderCreationPanicsAsClaimed ==
    last.res.tag = "Panic" => last.op = "paranoia"

(***************************************************************************)
(* The release of the native resources.                                    *)
(***************************************************************************)
\* No handle is left: every Drive and Paranoia was dropped.
AllDestroyed ==
    /\ \A d \in DriveIds : drive[d] \notin {"Caller", "Reader"}
    /\ \A r \in ReaderIds : paranoia[r].st # "Live" /\ ~reader[r].live

\* C7: no pointer is ever released twice, and once every handle is destroyed
\* each drive pointer that was located has been closed exactly once and each
\* reader pointer that was initialised has been freed exactly once.
C7_ReleasedExactlyOnce ==
    /\ \A d \in DriveIds : nat.drv[d].closes <= 1
    /\ \A r \in ReaderIds : nat.rdr[r].frees <= 1
    /\ AllDestroyed =>
            /\ \A d \in DriveIds : nat.drv[d].st # "Free" => nat.drv[d].closes = 1
            /\ \A r \in ReaderIds : nat.rdr[r].st # "Free" => nat.rdr[r].frees = 1

\* Two drives and a reader were made and every handle has been dropped.
C7_Witness ==
    /\ AllDestroyed
    /\ \A d \in {1, 2} : nat.drv[d].closes = 1
    /\ drive[1] = "Dropped" /\ drive[2] = "Dropped"
    /\ \E r \in ReaderIds : nat.rdr[r].frees = 1

\* The drive lifecycle of the native layer: unopened, open, closed.
Rank(st) == CASE st = "Open" -> 1 [] st = "Closed" -> 2 [] OTHER -> 0

\* No native call was made on a closed drive, on a freed reader or on a
\* reader whose drive is closed, and every live reader's drive is open.
C8_Inv ==
    /\ ~nat.bad
    /\ \A r \in ReaderIds :
            nat.rdr[r].st = "Live" => nat.drv[nat.rdr[r].drive].st = "Open"
    /\ \A r \in ReaderIds :
            paranoia[r].st = "Live" => nat.rdr[r].st = "Live"

\* A drive never moves back: closed stays closed, open is never unopened again.
C8_Forward ==
    \A d \in DriveIds : Rank(nat.drv[d].st) <= Rank(nat'.drv[d].st)

\* C8: paranoia_free of a reader comes before cdda_close of the drive it was
\* made from; no reader call (paranoia_read_limited, paranoia_free) and no
\* drive call is made on a drive after its close; and a drive only moves
\* forward through unopened, open, closed (a drive whose open failed is
\* closed unopened), closed being final.
C8_ReleaseOrder == []C8_Inv /\ [][C8_Forward]_vars

\* A reader was freed and then its drive was closed.
C8_Witness ==
    \E r \in ReaderIds :
        /\ nat.rdr[r].st = "Freed"
        /\ nat.drv[nat.rdr[r].drive].st = "Closed"
        /\ ~nat.bad

\* The calls of the last operation, by name.
Calls == [i \in 1..Len(nat.log) |-> nat.log[i][1]]
CountOf(f) == Cardinality({i \in 1..Len(nat.log) : nat.log[i][1] = f})

\* C9 as claimed: when find or open locates the drive and cdda_open returns a
\* negative code, the typed error for that code is returned, the caller gets
\* no handle, and the pointer is closed exactly once, after the open; when
\* the drive is not located, CantOpenDrive is returned and there is neither
\* an open nor a close.
C9_OpenFailureAsClaimed ==
    last.op \in {"find", "open"} /\ nat.log # <<>> =>
        /\ last.ptr # 0 /\ last.ret < 0 =>
                /\ last.res.tag = "Err" /\ last.res.err.kind = "Paranoia"
                /\ drive[last.ptr] = "Dropped"
                /\ nat.drv[last.ptr].closes = 1
                /\ CountOf("cdda_close") = 1
                /\ Calls[Len(Calls)] = "cdda_close"
        /\ last.ptr = 0 =>
                /\ last.res = Err(CantOpenDrive)
                /\ CountOf("cdda_open") = 0 /\ CountOf("cdda_close") = 0

(***************************************************************************)
(* The path of Drive::open.                                                *)
(***************************************************************************)
\* The last operation was Drive::open on a path holding a null byte.
OpenedNulPath == last.op = "open" /\ last.arg = 1

\* An open of a path holding a null byte returned Error::InvalidString with
\* no native call in it and no pointer; nothing else returns that error.
C11_Inv ==
    /\ OpenedNulPath =>
            /\ last.res = Err(InvalidString)
            /\ nat.log = <<>>
            /\ last.ptr = 0
    /\ last.res.tag = "Err" /\ last.res.err = InvalidString => OpenedNulPath

\* An open of a path holding a null byte leaves every native pointer and
\* every handle as it was.
C11_Untouched ==
    OpenedNulPath' =>
        /\ nat'.drv = nat.drv /\ nat'.rdr = nat.rdr /\ nat'.bad = nat.bad
        /\ UNCHANGED <<drive, paranoia, reader>>

\* C11: Drive::open on a path whose bytes hold a null byte returns
\* Error::InvalidString and makes no native call at all before it returns:
\* no identify, no open, no fetch of the messages, no close.
C11_NulPathNoNativeCall == []C11_Inv /\ [][C11_Untouched]_vars

\* A path holding a null byte was opened while the caller held an open drive.
C11_Witness ==
    /\ OpenedNulPath /\ last.res = Err(InvalidString)
    /\ \E d \in DriveIds : drive[d] = "Caller" /\ nat.drv[d].st = "Open"

====
